---- MODULE Spec2Model ----
(***************************************************************************)
(* A model of src/server.js: the GET /images handler of the TMDb image     *)
(* gateway.  A request runs in three steps separated by the two awaits:    *)
(* Receive (lines 24-38, up to the first await), SearchReturns (lines      *)
(* 40-68, between the awaits) and ImagesReturns (lines 70-180, after the   *)
(* second await); a rejected await or a thrown exception runs the catch    *)
(* block (lines 181-187).                                                  *)
(*                                                                         *)
(* JavaScript values.  A string is a sequence of tokens (characters for    *)
(* the query, whole words elsewhere), so that concatenation is \o.  A      *)
(* string-or-undefined value is a record [defined, value].  A language     *)
(* code is a TLA+ string, with JS_NULL and JS_UNDEFINED standing for the   *)
(* values null and undefined (an absent field).  A JSON field that the     *)
(* code tests with Array.isArray or calls forEach on is tagged with its    *)
(* type: [t |-> "array" | "string" | "undefined", v |-> ...], v being the  *)
(* elements of an array and empty otherwise.  The emoji of the section     *)
(* titles are left out of the title strings.  Record fields are written    *)
(* in alphabetical order throughout.                                       *)
(***************************************************************************)
EXTENDS Integers, Sequences, FiniteSets, TLC

\* ------------------------------------------------------------- bounds
NumReqs == 2
MaxResults == 2
MaxAssets == 2
MaxQueryLen == 2

Reqs == 1..NumReqs

\* ---------------------------------------------------------- JS values
JS_NULL == "<null>"
JS_UNDEFINED == "<undefined>"

JsUndef == [defined |-> FALSE, value |-> <<>>]
JsStr(s) == [defined |-> TRUE, value |-> s]

\* JavaScript truthiness of a string-or-undefined value.
Truthy(v) == v.defined /\ v.value # <<>>

\* a || b on string-or-undefined values.
OrElse(a, b) == IF Truthy(a) THEN a ELSE b

Arr(s) == [t |-> "array", v |-> s]
NotArr == [t |-> "string", v |-> <<>>]
Missing == [t |-> "undefined", v |-> <<>>]

\* (field || []) : the array itself, [] for a falsy field, and a truthy
\* non-array is handed on as it is (forEach on it throws).
OrEmpty(f) == IF f.t = "undefined" THEN Arr(<<>>) ELSE f

Range(s) == {s[i] : i \in 1..Len(s)}

RECURSIVE SeqsUpTo(_, _)
SeqsUpTo(S, n) ==
  IF n = 0 THEN {<<>>}
  ELSE LET shorter == SeqsUpTo(S, n - 1)
       IN shorter \cup {Append(s, x) : s \in shorter, x \in S}

\* ---------------------------------------------------------- constants
BASE_URL == <<"https://api.themoviedb.org/3">>
IMG_URL == <<"https://image.tmdb.org/t/p/original">>
backdropLangs == <<"en", "hi", JS_NULL>>
posterLangs == <<"en", "hi", "ta", "te", "ja", "ko">>

\* ------------------------------------------------------ pure helpers
\* String.prototype.trim on a sequence of characters.
RECURSIVE TrimStart(_)
TrimStart(s) ==
  IF s # <<>> /\ Head(s) = " " THEN TrimStart(Tail(s)) ELSE s

RECURSIVE TrimEnd(_)
TrimEnd(s) ==
  IF s # <<>> /\ s[Len(s)] = " " THEN TrimEnd(SubSeq(s, 1, Len(s) - 1)) ELSE s

Trim(s) == TrimEnd(TrimStart(s))

\* (req.query.query || "").toString().trim()
QueryOf(raw) == Trim(OrElse(raw, JsStr(<<>>)).value)

\* String.prototype.toUpperCase on the words the handler applies it to.
ToUpperCase(s) ==
  CASE s = "movie" -> "MOVIE"
    [] s = "tv" -> "TV"
    [] s = "en" -> "EN"
    [] s = "hi" -> "HI"
    [] s = "ta" -> "TA"
    [] s = "te" -> "TE"
    [] s = "ja" -> "JA"
    [] s = "ko" -> "KO"
    [] s = "fr" -> "FR"
    [] s = "undefined" -> "UNDEFINED"
    [] OTHER -> s

\* Array.prototype.join.
RECURSIVE Join(_, _)
Join(s, sep) ==
  IF s = <<>> THEN <<>>
  ELSE IF Len(s) = 1 THEN <<s[1]>>
  ELSE <<s[1], sep>> \o Join(Tail(s), sep)

\* The property key JavaScript makes of a value used as an object key.
ToPropertyKey(v) == IF v = JS_UNDEFINED THEN "undefined" ELSE v

IsMovieOrTv(r) == r.media_type = "movie" \/ r.media_type = "tv"

\* results.find(...): the index of the first movie or tv, 0 when find
\* returns undefined.
RECURSIVE FindFrom(_, _)
FindFrom(results, i) ==
  IF i > Len(results) THEN 0
  ELSE IF IsMovieOrTv(results[i]) THEN i
  ELSE FindFrom(results, i + 1)

\* Mutant: the last movie or tv of the list instead of the first.
RECURSIVE FindLastFrom(_, _)
FindLastFrom(results, i) ==
  IF i < 1 THEN 0
  ELSE IF IsMovieOrTv(results[i]) THEN i
  ELSE FindLastFrom(results, i - 1)

FindLast(results) == FindLastFrom(results, Len(results))

Find(results) == FindFrom(results, 1)

\* Mutant: no fallback to results[0].
FirstIndexNoFallback(results) == Find(results)

\* results.find(...) || results[0] : the index of `first', 0 when undefined.
FirstIndex(results) ==
  IF Find(results) # 0 THEN Find(results)
  ELSE IF Len(results) > 0 THEN 1
  ELSE 0

\* Array.isArray(multi.data?.results) ? multi.data.results : []
ResultsOf(data) == IF data.results.t = "array" THEN data.results.v ELSE <<>>

\* first.title || first.name || "Unknown"
TitleOf(first) == OrElse(OrElse(first.title, first.name), JsStr(<<"Unknown">>))

\* IMG_URL + file_path
FullUrl(a) == IMG_URL \o a.file_path

\* ------------------------------------------------- grouping (70-101)
\* One step of the backdrops forEach (lines 78-83).
BackdropPush(g, b) ==
  LET lang == IF b.iso_639_1 = JS_NULL THEN "null" ELSE b.iso_639_1
  IN IF b.iso_639_1 \in Range(backdropLangs) \/ lang = "null"
     THEN [g EXCEPT ![lang] = Append(@, FullUrl(b))]
     ELSE g

RECURSIVE BackdropsForEach(_, _)
BackdropsForEach(list, g) ==
  IF list = <<>> THEN g
  ELSE BackdropsForEach(Tail(list), BackdropPush(g, Head(list)))

groupedBackdrops(images) ==
  BackdropsForEach(OrEmpty(images.backdrops).v,
                   [k \in {"en", "hi", "null"} |-> <<>>])

\* One step of the posters forEach (lines 88-93).
PosterPush(g, p) ==
  LET lang == p.iso_639_1
  IN IF lang \in Range(posterLangs)
     THEN [g EXCEPT ![lang] = Append(@, FullUrl(p))]
     ELSE g

RECURSIVE PostersForEach(_, _)
PostersForEach(list, g) ==
  IF list = <<>> THEN g
  ELSE PostersForEach(Tail(list), PosterPush(g, Head(list)))

groupedPosters(images) ==
  PostersForEach(OrEmpty(images.posters).v,
                 [k \in Range(posterLangs) |-> <<>>])

\* groupedLogos is an object whose keys are created on the way: it is the
\* sequence of its entries [key, urls] in key-creation order, which is the
\* order Object.keys and Object.entries give.
HasKey(g, k) == \E i \in 1..Len(g) : g[i].key = k

\* One step of the logos forEach (lines 97-101).
LogoPush(g, l) ==
  LET lang == ToPropertyKey(IF l.iso_639_1 = JS_NULL THEN "null" ELSE l.iso_639_1)
      g1 == IF ~HasKey(g, lang) THEN Append(g, [key |-> lang, urls |-> <<>>]) ELSE g
  IN [i \in 1..Len(g1) |->
        IF g1[i].key = lang
        THEN [g1[i] EXCEPT !.urls = Append(@, FullUrl(l))]
        ELSE g1[i]]

RECURSIVE LogosForEach(_, _)
LogosForEach(list, g) ==
  IF list = <<>> THEN g
  ELSE LogosForEach(Tail(list), LogoPush(g, Head(list)))

groupedLogos(images) == LogosForEach(OrEmpty(images.logos).v, <<>>)

\* ------------------------------------------------- skipped (104-120)
posterSectionsSkipped(gp) == SelectSeq(posterLangs, LAMBDA l : Len(gp[l]) = 0)

\* Mutant: || for && in the test of the backdrop buckets.
skippedAnyBackdropEmpty(gb, gp, gl) ==
  (IF Len(gb["en"]) = 0 \/ Len(gb["hi"]) = 0 \/ Len(gb["null"]) = 0
   THEN << <<"Backdrops (en/hi/null)">> >>
   ELSE <<>>)
  \o (IF Len(posterSectionsSkipped(gp)) # 0
      THEN << <<"Posters (">> \o Join(posterSectionsSkipped(gp), ", ") \o <<")">> >>
      ELSE <<>>)
  \o (IF Len(gl) = 0
      THEN << <<"Logos (All Languages)">> >>
      ELSE <<>>)

\* Mutant: the posters entry only when all six poster buckets are empty.
skippedWholeCategories(gb, gp, gl) ==
  (IF Len(gb["en"]) = 0 /\ Len(gb["hi"]) = 0 /\ Len(gb["null"]) = 0
   THEN << <<"Backdrops (en/hi/null)">> >>
   ELSE <<>>)
  \o (IF Len(posterSectionsSkipped(gp)) = Len(posterLangs)
      THEN << <<"Posters (">> \o Join(posterSectionsSkipped(gp), ", ") \o <<")">> >>
      ELSE <<>>)
  \o (IF Len(gl) = 0
      THEN << <<"Logos (All Languages)">> >>
      ELSE <<>>)

skipped(gb, gp, gl) ==
  (IF Len(gb["en"]) = 0 /\ Len(gb["hi"]) = 0 /\ Len(gb["null"]) = 0
   THEN << <<"Backdrops (en/hi/null)">> >>
   ELSE <<>>)
  \o (IF Len(posterSectionsSkipped(gp)) # 0
      THEN << <<"Posters (">> \o Join(posterSectionsSkipped(gp), ", ") \o <<")">> >>
      ELSE <<>>)
  \o (IF Len(gl) = 0
      THEN << <<"Logos (All Languages)">> >>
      ELSE <<>>)

\* ----------------------------------------------- formatted (122-170)
backTitleMap ==
  [k \in {"en", "hi", "null"} |->
     CASE k = "en" -> "English Landscape"
       [] k = "hi" -> "Hindi Landscape"
       [] k = "null" -> "Clean Landscape"]

posterTitleMap ==
  [k \in Range(posterLangs) |->
     CASE k = "en" -> "English Posters"
       [] k = "hi" -> "Hindi Posters"
       [] k = "ta" -> "Tamil Posters"
       [] k = "te" -> "Telugu Posters"
       [] k = "ja" -> "Japanese Posters"
       [] k = "ko" -> "Korean Posters"]

\* list.forEach((url, i) => (formatted += `${i + 1}. ${url}\n`))
RECURSIVE NumberedFrom(_, _)
NumberedFrom(list, i) ==
  IF i > Len(list) THEN <<>>
  ELSE <<ToString(i), ". ">> \o list[i] \o <<"\n">> \o NumberedFrom(list, i + 1)

\* A titled section: the title line, the numbered urls, an empty line.
Section(label, list) == label \o <<"\n">> \o NumberedFrom(list, 1) \o <<"\n">>

\* The loops of lines 130-137 and 147-154: a section for every key of
\* `keys', in that order, whose list is not empty.
RECURSIVE SectionsOf(_, _, _)
SectionsOf(keys, grouped, titleMap) ==
  IF keys = <<>> THEN <<>>
  ELSE (IF Len(grouped[Head(keys)]) # 0
        THEN Section(<<titleMap[Head(keys)]>>, grouped[Head(keys)])
        ELSE <<>>)
       \o SectionsOf(Tail(keys), grouped, titleMap)

\* The label of a logo language (line 159).
LogoLabel(lang) ==
  IF lang = "null" THEN <<"No Language">> ELSE <<"Logo ", ToUpperCase(lang)>>

\* The loop over Object.entries(groupedLogos) (lines 158-163).
RECURSIVE LogoSections(_)
LogoSections(gl) ==
  IF gl = <<>> THEN <<>>
  ELSE Section(LogoLabel(gl[1].key), gl[1].urls) \o LogoSections(Tail(gl))

\* skipped.forEach((s) => (formatted += `- ${s}\n`))
RECURSIVE SkippedLines(_)
SkippedLines(sk) ==
  IF sk = <<>> THEN <<>>
  ELSE <<"- ">> \o sk[1] \o <<"\n">> \o SkippedLines(Tail(sk))

formatted(title, media_type, gb, gp, gl, sk) ==
  <<"Results for ">> \o title.value \o <<" (", ToUpperCase(media_type), ")", "\n", "\n">>
  \o SectionsOf(<<"en", "hi", "null">>, gb, backTitleMap)
  \o SectionsOf(posterLangs, gp, posterTitleMap)
  \o (IF Len(gl) # 0
      THEN <<"Logos (All Languages)", "\n">> \o LogoSections(gl)
      ELSE <<>>)
  \o (IF Len(sk) # 0
      THEN <<"Skipped:", "\n">> \o SkippedLines(sk) \o <<"\n">>
      ELSE <<>>)

\* The success payload (lines 172-180).
Payload(query, first, images) ==
  LET gb == groupedBackdrops(images)
      gp == groupedPosters(images)
      gl == groupedLogos(images)
      sk == skipped(gb, gp, gl)
  IN [backdrops |-> gb,
      detected |-> [id |-> first.id, media_type |-> first.media_type,
                    title |-> TitleOf(first)],
      formatted |-> formatted(TitleOf(first), first.media_type, gb, gp, gl, sk),
      logos |-> gl,
      posters |-> gp,
      query |-> query,
      skipped |-> sk]

\* --------------------------------------------------------------- state
VARIABLES
  TMDB_API_KEY,  \* process.env.TMDB_API_KEY, read once at startup (line 13)
  pc,            \* pc[r]: where request r is: idle, search, images, done
  req,           \* req[r]: req.query.query of request r
  multi,         \* multi[r]: what the awaited search call gave (line 36)
  imagesResp,    \* imagesResp[r]: what the awaited images call gave (line 63)
  calls,         \* calls[r]: the outbound calls request r has issued, in order
  res            \* res[r]: the responses sent for request r, in order

vars == <<TMDB_API_KEY, pc, req, multi, imagesResp, calls, res>>

\* What an awaited axios.get gives: it resolves with the body `data', or
\* rejects with an error that carries the upstream's body (a non-2xx
\* status) or none (a network error), and a message.
NoError == [message |-> JsUndef, response_data |-> JsUndef]
NoSearchData == [results |-> Missing]
NoImagesData == [backdrops |-> Missing, logos |-> Missing, posters |-> Missing]
Resolved(data) == [data |-> data, error |-> NoError, kind |-> "resolved"]
SearchRejected(err) == [data |-> NoSearchData, error |-> err, kind |-> "rejected"]
ImagesRejected(err) == [data |-> NoImagesData, error |-> err, kind |-> "rejected"]
SearchPending == [data |-> NoSearchData, error |-> NoError, kind |-> "pending"]
ImagesPending == [data |-> NoImagesData, error |-> NoError, kind |-> "pending"]

\* axios.get(`${BASE_URL}/search/multi`, {params: {api_key, query}})
SearchCall(key, query) ==
  [params |-> [api_key |-> key.value, query |-> query],
   url |-> BASE_URL \o <<"/search/multi">>]

\* Mutant: the images endpoint of movies whatever the detected type.
ImagesCallMovie(key, media_type, item_id) ==
  [params |-> [api_key |-> key.value,
               include_image_language |-> "en,hi,ta,te,ja,ko,null"],
   url |-> BASE_URL \o <<"/", "movie", "/", ToString(item_id), "/images">>]

\* axios.get(`${BASE_URL}/${media_type}/${item_id}/images`, {params: ...})
ImagesCall(key, media_type, item_id) ==
  [params |-> [api_key |-> key.value,
               include_image_language |-> "en,hi,ta,te,ja,ko,null"],
   url |-> BASE_URL \o <<"/", media_type, "/", ToString(item_id), "/images">>]

\* What a step of the handler ends with: a response sent, or an outbound
\* call issued and awaited.
Reply(status, body) == [body |-> body, kind |-> "reply", status |-> status]
Await(call) == [call |-> call, kind |-> "await"]

\* The catch block (lines 181-187).
Catch(err) ==
  Reply(500, [details |-> OrElse(err.response_data, err.message).value,
              error |-> "Error fetching data"])

\* forEach called on a value that has none (lines 78, 88, 97).
TypeError == [message |-> JsStr(<<"forEach is not a function">>), response_data |-> JsUndef]

\* Mutant: the query is checked before the credential.
OnRequestQueryFirst(key, raw) ==
  IF QueryOf(raw) = <<>>
  THEN Reply(400, [error |-> "query param is required"])
  ELSE IF ~Truthy(key)
  THEN Reply(500, [error |-> "TMDB_API_KEY missing in environment variables"])
  ELSE Await(SearchCall(key, QueryOf(raw)))

\* Lines 24-38: the handler up to its first await.
OnRequest(key, raw) ==
  IF ~Truthy(key)
  THEN Reply(500, [error |-> "TMDB_API_KEY missing in environment variables"])
  ELSE IF QueryOf(raw) = <<>>
  THEN Reply(400, [error |-> "query param is required"])
  ELSE Await(SearchCall(key, QueryOf(raw)))

\* Mutant: no `if (!first)': reading first.media_type of an empty result
\* list throws, and the catch block answers.
OnSearchNoEmptyCheck(key, outcome) ==
  IF outcome.kind = "rejected" THEN Catch(outcome.error)
  ELSE LET results == ResultsOf(outcome.data)
           first == FirstIndex(results)
       IN IF first = 0
          THEN Catch([message |-> JsStr(<<"Cannot read properties of undefined">>),
                      response_data |-> JsUndef])
          ELSE IF results[first].media_type # "movie" /\ results[first].media_type # "tv"
          THEN Reply(404, [error |-> "Top result is not a movie/tv. Try a more specific query (person results are skipped)."])
          ELSE Await(ImagesCall(key, results[first].media_type, results[first].id))

\* Lines 36-68 and the catch block: from the search call's outcome to the
\* second await, or to a response.
OnSearch(key, outcome) ==
  IF outcome.kind = "rejected" THEN Catch(outcome.error)
  ELSE LET results == ResultsOf(outcome.data)
           first == FirstIndex(results)
       IN IF first = 0
          THEN Reply(404, [error |-> "No result found"])
          ELSE IF results[first].media_type # "movie" /\ results[first].media_type # "tv"
          THEN Reply(404, [error |-> "Top result is not a movie/tv. Try a more specific query (person results are skipped)."])
          ELSE Await(ImagesCall(key, results[first].media_type, results[first].id))

\* The images body makes a forEach throw: a category that is neither an
\* array nor falsy (lines 78, 88, 97).
ForEachThrows(images) ==
  \E f \in {"backdrops", "logos", "posters"} : OrEmpty(images[f]).t # "array"

\* Mutant: a failed images call is swallowed and answered with the
\* payload of an empty catalog.
OnImagesSwallow(query, first, outcome) ==
  IF outcome.kind = "rejected" THEN Reply(200, Payload(query, first, NoImagesData))
  ELSE IF ForEachThrows(outcome.data) THEN Catch(TypeError)
  ELSE Reply(200, Payload(query, first, outcome.data))

\* Lines 63-187: from the images call's outcome to the response.  `first'
\* is the search result selected before the await.
OnImages(query, first, outcome) ==
  IF outcome.kind = "rejected" THEN Catch(outcome.error)
  ELSE IF ForEachThrows(outcome.data) THEN Catch(TypeError)
  ELSE Reply(200, Payload(query, first, outcome.data))

\* `first' of request r (lines 43-45), once its search has resolved.
FirstOf(r) ==
  LET results == ResultsOf(multi[r].data)
  IN results[FirstIndex(results)]

\* Request r takes the step: res.status(status).json(body) and the handler
\* returns, or the call goes out and the handler waits at `awaiting'.
Take(r, step, awaiting) ==
  IF step.kind = "reply"
  THEN /\ res' = [res EXCEPT ![r] = Append(@, [body |-> step.body, status |-> step.status])]
       /\ pc' = [pc EXCEPT ![r] = "done"]
       /\ UNCHANGED calls
  ELSE /\ calls' = [calls EXCEPT ![r] = Append(@, step.call)]
       /\ pc' = [pc EXCEPT ![r] = awaiting]
       /\ UNCHANGED res

Init ==
  /\ TMDB_API_KEY \in {JsUndef, JsStr(<<>>), JsStr(<<"k">>)}
  /\ pc = [r \in Reqs |-> "idle"]
  /\ req = [r \in Reqs |-> JsUndef]
  /\ multi = [r \in Reqs |-> SearchPending]
  /\ imagesResp = [r \in Reqs |-> ImagesPending]
  /\ calls = [r \in Reqs |-> <<>>]
  /\ res = [r \in Reqs |-> <<>>]

\* GET /images arrives with req.query.query = raw.
Receive(r, raw) ==
  /\ pc[r] = "idle"
  /\ req' = [req EXCEPT ![r] = raw]
  /\ Take(r, OnRequest(TMDB_API_KEY, raw), "search")
  /\ UNCHANGED <<TMDB_API_KEY, multi, imagesResp>>

\* The search call of request r settles.
SearchReturns(r, outcome) ==
  /\ pc[r] = "search"
  /\ multi' = [multi EXCEPT ![r] = outcome]
  /\ Take(r, OnSearch(TMDB_API_KEY, outcome), "images")
  /\ UNCHANGED <<TMDB_API_KEY, req, imagesResp>>

\* The images call of request r settles.
ImagesReturns(r, outcome) ==
  /\ pc[r] = "images"
  /\ imagesResp' = [imagesResp EXCEPT ![r] = outcome]
  /\ Take(r, OnImages(QueryOf(req[r]), FirstOf(r), outcome), "done")
  /\ UNCHANGED <<TMDB_API_KEY, req, multi>>

\* ------------------------------------------------------------- inputs
RawQueries == {JsUndef} \cup {JsStr(s) : s \in SeqsUpTo({" ", "a"}, MaxQueryLen)}

Item(media_type, id, title, name) ==
  [id |-> id, media_type |-> media_type, name |-> name, title |-> title]

MovieTitled == Item("movie", 1, JsStr(<<"Inception">>), JsUndef)
MovieUntitled == Item("movie", 2, JsUndef, JsUndef)
TvNamed == Item("tv", 1, JsUndef, JsStr(<<"Marry My Husband">>))
TvEmptyTitle == Item("tv", 3, JsStr(<<>>), JsStr(<<"Dark">>))
PersonA == Item("person", 4, JsUndef, JsStr(<<"Park Min-young">>))
PersonB == Item("person", 1, JsUndef, JsStr(<<"Na In-woo">>))

ResultItems == {MovieTitled, MovieUntitled, TvNamed, TvEmptyTitle, PersonA, PersonB}

NetworkError == [message |-> JsStr(<<"Network Error">>), response_data |-> JsUndef]
StatusError ==
  [message |-> JsStr(<<"Request failed with status code 401">>),
   response_data |-> JsStr(<<"Invalid API key">>)]
StatusErrorNoBody ==
  [message |-> JsStr(<<"Request failed with status code 502">>),
   response_data |-> JsStr(<<>>)]

Rejections == {NetworkError, StatusError, StatusErrorNoBody}

SearchOutcomes ==
  {Resolved([results |-> Arr(s)]) : s \in SeqsUpTo(ResultItems, MaxResults)}
  \cup {Resolved([results |-> Missing]), Resolved([results |-> NotArr])}
  \cup {SearchRejected(e) : e \in Rejections}

Asset(lang, path) == [file_path |-> <<path>>, iso_639_1 |-> lang]

Catalog(b, p, l) == [backdrops |-> Arr(b), logos |-> Arr(l), posters |-> Arr(p)]

\* The catalog of the spec's end-to-end example, and the same with the two
\* logos in the other order.
ExampleCatalog ==
  Catalog(<<Asset("en", "/b1.jpg")>>, <<Asset("ta", "/p1.jpg")>>,
          <<Asset("en", "/l1.png"), Asset(JS_NULL, "/l2.png")>>)
ExampleCatalogSwapped ==
  Catalog(<<Asset("en", "/b1.jpg")>>, <<Asset("ta", "/p1.jpg")>>,
          <<Asset(JS_NULL, "/l2.png"), Asset("en", "/l1.png")>>)

ImagesOutcomes ==
  {Resolved(c) : c \in {ExampleCatalog, ExampleCatalogSwapped, Catalog(<<>>, <<>>, <<>>),
                        NoImagesData,
                        [backdrops |-> NotArr, logos |-> Missing, posters |-> Missing],
                        [backdrops |-> Arr(<<>>), logos |-> NotArr, posters |-> Missing]}}
  \cup {ImagesRejected(e) : e \in Rejections}

\* One request on its own, over the whole input domain.
Next ==
  \/ \E raw \in RawQueries : Receive(1, raw)
  \/ \E outcome \in SearchOutcomes : SearchReturns(1, outcome)
  \/ \E outcome \in ImagesOutcomes : ImagesReturns(1, outcome)

Spec == Init /\ [][Next]_vars

\* ------------------------------------------- the grouping on its own
\* The image catalogs the grouping is checked on: every list of up to
\* MaxAssets assets in one category, one poster of each of the six
\* languages with at most one more poster after them, and every mix of at
\* most one asset per category.
Paths == {"/a.jpg", "/b.jpg"}
BackdropAssets == {Asset(l, p) : l \in {"en", "hi", "fr", JS_NULL, JS_UNDEFINED}, p \in Paths}
PosterAssets ==
  {Asset(l, p) : l \in {"en", "hi", "ta", "te", "ja", "ko", "fr", JS_NULL, JS_UNDEFINED},
                 p \in Paths}
LogoAssets == {Asset(l, p) : l \in {"en", "fr", JS_NULL, JS_UNDEFINED}, p \in Paths}
OneOfEachPoster ==
  <<Asset("ko", "/ko.jpg"), Asset("en", "/en.jpg"), Asset("ja", "/ja.jpg"),
    Asset("hi", "/hi.jpg"), Asset("te", "/te.jpg"), Asset("ta", "/ta.jpg")>>
AtMostOne(assets) == {s \in SeqsUpTo(assets, 1) : s = <<>> \/ s[1].file_path = <<"/a.jpg">>}

GroupCatalogs ==
  {Catalog(b, <<>>, <<>>) : b \in SeqsUpTo(BackdropAssets, MaxAssets)}
  \cup {Catalog(<<>>, p, <<>>) : p \in SeqsUpTo(PosterAssets, MaxAssets)}
  \cup {Catalog(<<>>, OneOfEachPoster \o p, <<>>) : p \in SeqsUpTo(PosterAssets, 1)}
  \cup {Catalog(<<>>, <<>>, l) : l \in SeqsUpTo(LogoAssets, MaxAssets)}
  \cup {Catalog(b, p, l) : b \in AtMostOne(BackdropAssets), p \in AtMostOne(PosterAssets),
                           l \in AtMostOne(LogoAssets)}

\* Request 1 has selected its entity and awaits the image catalog.
InitGroup ==
  /\ TMDB_API_KEY = JsStr(<<"k">>)
  /\ pc = [r \in Reqs |-> IF r = 1 THEN "images" ELSE "idle"]
  /\ req = [r \in Reqs |-> IF r = 1 THEN JsStr(<<"a">>) ELSE JsUndef]
  /\ \E results \in {<<TvNamed>>, <<PersonA, MovieTitled>>} :
       /\ multi = [r \in Reqs |-> IF r = 1 THEN Resolved([results |-> Arr(results)])
                                  ELSE SearchPending]
       /\ calls = [r \in Reqs |->
                     IF r = 1
                     THEN <<SearchCall(JsStr(<<"k">>), <<"a">>),
                            ImagesCall(JsStr(<<"k">>), results[FirstIndex(results)].media_type,
                                       results[FirstIndex(results)].id)>>
                     ELSE <<>>]
  /\ imagesResp = [r \in Reqs |-> ImagesPending]
  /\ res = [r \in Reqs |-> <<>>]

NextGroup == \E c \in GroupCatalogs : ImagesReturns(1, Resolved(c))

SpecGroup == InitGroup /\ [][NextGroup]_vars

\* ------------------------------------------------- concurrent requests
ConcQueries == {JsUndef, JsStr(<<"a">>), JsStr(<<" ", "b">>)}
ConcSearchOutcomes ==
  {SearchRejected(NetworkError), Resolved([results |-> Arr(<<>>)]),
   Resolved([results |-> Arr(<<PersonA, TvNamed>>)]),
   Resolved([results |-> Arr(<<MovieUntitled, TvNamed>>)])}
ConcImagesOutcomes ==
  {ImagesRejected(StatusError), Resolved(ExampleCatalog), Resolved(NoImagesData)}

\* Every request of Reqs, in every interleaving of their steps.
NextConc ==
  \E r \in Reqs :
    \/ \E raw \in ConcQueries : Receive(r, raw)
    \/ \E outcome \in ConcSearchOutcomes : SearchReturns(r, outcome)
    \/ \E outcome \in ConcImagesOutcomes : ImagesReturns(r, outcome)

SpecConc == Init /\ [][NextConc]_vars

\* ------------------------------------------------------------- claims
\* What the claims speak of, stated on the state alone.
Configured == TMDB_API_KEY.defined /\ Len(TMDB_API_KEY.value) > 0
Blank(raw) == ~raw.defined \/ \A i \in 1..Len(raw.value) : raw.value[i] = " "
MovieOrTv == {"movie", "tv"}
SearchResults(r) == multi[r].data.results.v
GotResults(r) == multi[r].kind = "resolved" /\ multi[r].data.results.t = "array"
IsFirstMovieOrTv(results, k) ==
  /\ k \in 1..Len(results)
  /\ results[k].media_type \in MovieOrTv
  /\ \A j \in 1..(k - 1) : results[j].media_type \notin MovieOrTv
SearchUrl == <<"https://api.themoviedb.org/3", "/search/multi">>
ImagesUrl(item) ==
  <<"https://api.themoviedb.org/3", "/", item.media_type, "/", ToString(item.id), "/images">>
OnlyReply(r, status, error) ==
  /\ Len(res[r]) = 1
  /\ res[r][1].status = status
  /\ DOMAIN res[r][1].body = {"error"}
  /\ res[r][1].body.error = error
OnlyUpstreamError(r) ==
  /\ Len(res[r]) = 1
  /\ res[r][1].status = 500
  /\ DOMAIN res[r][1].body = {"details", "error"}
  /\ res[r][1].body.error = "Error fetching data"
NotFoundText == "No result found"
AmbiguousText == "Top result is not a movie/tv. Try a more specific query (person results are skipped)."
MissingKeyText == "TMDB_API_KEY missing in environment variables"
QueryRequiredText == "query param is required"

\* C1: when the search results hold a movie or tv, the request is never
\* answered 404 and the entity of a success payload (detected.media_type,
\* detected.id) is the first movie or tv in upstream order, whatever
\* precedes it.
C1_FirstMovieOrTvReported ==
  \A r \in Reqs : \A k \in 1..Len(SearchResults(r)) :
    (GotResults(r) /\ IsFirstMovieOrTv(SearchResults(r), k)) =>
      \A i \in 1..Len(res[r]) :
        /\ res[r][i].status # 404
        /\ res[r][i].status = 200 =>
             /\ res[r][i].body.detected.media_type = SearchResults(r)[k].media_type
             /\ res[r][i].body.detected.id = SearchResults(r)[k].id

\* A success payload for results that start with a person and hold a tv or
\* movie after it.
C1_Witness ==
  \E r \in Reqs :
    /\ GotResults(r)
    /\ Len(SearchResults(r)) >= 2
    /\ SearchResults(r)[1].media_type = "person"
    /\ IsFirstMovieOrTv(SearchResults(r), 2)
    /\ Len(res[r]) = 1 /\ res[r][1].status = 200

\* C2: non-empty search results without a movie or tv end the request with
\* the AmbiguousQuery 404, not with the NotFound 404 nor with a payload, and
\* with the search as the only outbound call.
C2_OnlyPersonsIsAmbiguous ==
  \A r \in Reqs :
    (/\ GotResults(r)
     /\ Len(SearchResults(r)) > 0
     /\ \A k \in 1..Len(SearchResults(r)) : SearchResults(r)[k].media_type \notin MovieOrTv)
    => /\ OnlyReply(r, 404, AmbiguousText)
       /\ pc[r] = "done"
       /\ Len(calls[r]) = 1 /\ calls[r][1].url = SearchUrl

\* The search gave two persons and the request is answered.
C2_Witness ==
  \E r \in Reqs :
    /\ GotResults(r)
    /\ Len(SearchResults(r)) = 2
    /\ \A k \in 1..2 : SearchResults(r)[k].media_type = "person"
    /\ Len(res[r]) = 1

\* C3: zero search results end the request with the NotFound 404 and the
\* search is the one outbound call made.
C3_NoResultIsNotFound ==
  \A r \in Reqs :
    (GotResults(r) /\ Len(SearchResults(r)) = 0)
    => /\ OnlyReply(r, 404, NotFoundText)
       /\ pc[r] = "done"
       /\ Len(calls[r]) = 1 /\ calls[r][1].url = SearchUrl

\* The search gave an empty list and the request is answered.
C3_Witness ==
  \E r \in Reqs : GotResults(r) /\ Len(SearchResults(r)) = 0 /\ Len(res[r]) = 1

\* C4 as stated: a request whose query is missing or blank is answered 400
\* and makes no outbound call, whether or not the credential is configured.
C4_BlankQueryIs400 ==
  \A r \in Reqs :
    (pc[r] # "idle" /\ Blank(req[r]))
    => OnlyReply(r, 400, QueryRequiredText) /\ calls[r] = <<>>

\* C4 as amended: a request whose query is missing or blank makes no
\* outbound call; it is answered 400 when the credential is configured and
\* with the 500 of the missing credential when it is not.
C4_BlankQueryNoCall ==
  \A r \in Reqs :
    (pc[r] # "idle" /\ Blank(req[r]))
    => /\ calls[r] = <<>>
       /\ pc[r] = "done"
       /\ Configured => OnlyReply(r, 400, QueryRequiredText)
       /\ ~Configured => OnlyReply(r, 500, MissingKeyText)

\* A blank, non-empty query answered without the credential, and one
\* answered with it.
C4_Witness ==
  \E r \in Reqs :
    /\ pc[r] = "done"
    /\ req[r].defined /\ Len(req[r].value) > 0 /\ Blank(req[r])
    /\ ~Configured

\* What C9 speaks of.
SearchFailed(r) == multi[r].kind = "rejected"
ImagesFailed(r) == imagesResp[r].kind = "rejected"
Categories == {"backdrops", "logos", "posters"}
MalformedSearch(r) == multi[r].kind = "resolved" /\ multi[r].data.results.t # "array"
MalformedImages(r) ==
  /\ imagesResp[r].kind = "resolved"
  /\ \E f \in Categories : imagesResp[r].data[f].t # "array"
AtMostOneCallEach(r) ==
  /\ Len(calls[r]) <= 2
  /\ Len(calls[r]) >= 1 => calls[r][1].url = SearchUrl
  /\ Len(calls[r]) = 2 => calls[r][2].url # SearchUrl

Langs(list) == [i \in 1..Len(list) |-> list[i].iso_639_1]
Member(list, x) == \E i \in 1..Len(list) : list[i] = x
BackdropsEntry == <<"Backdrops (en/hi/null)">>
LogosEntry == <<"Logos (All Languages)">>
FivePostersEntry == <<"Posters (", "en", ", ", "hi", ", ", "te", ", ", "ja", ", ", "ko", ")">>

\* The lines of a text: its tokens split at the line ends.
RECURSIVE LinesFrom(_, _, _)
LinesFrom(text, i, line) ==
  IF i > Len(text) THEN (IF line = <<>> THEN <<>> ELSE <<line>>)
  ELSE IF text[i] = "\n" THEN <<line>> \o LinesFrom(text, i + 1, <<>>)
  ELSE LinesFrom(text, i + 1, Append(line, text[i]))
Lines(text) == LinesFrom(text, 1, <<>>)

IsSectionTitle(line) ==
  /\ Len(line) > 0
  /\ \/ line[1] \in {"Clean Landscape", "English Landscape", "English Posters",
                     "Hindi Landscape", "Hindi Posters", "Japanese Posters",
                     "Korean Posters", "No Language", "Tamil Posters",
                     "Telugu Posters"}
     \/ line[1] = "Logo "
SectionTitles(text) == SelectSeq(Lines(text), IsSectionTitle)

\* The end-to-end example: a tv entity selected, one English backdrop, one
\* Tamil poster, two logos (one "en", one without language).
IsExample(r) ==
  /\ GotResults(r)
  /\ \E k \in 1..Len(SearchResults(r)) :
       IsFirstMovieOrTv(SearchResults(r), k) /\ SearchResults(r)[k].media_type = "tv"
  /\ imagesResp[r].kind = "resolved"
  /\ \A f \in Categories : imagesResp[r].data[f].t = "array"
  /\ Langs(imagesResp[r].data.backdrops.v) = <<"en">>
  /\ Langs(imagesResp[r].data.posters.v) = <<"ta">>
  /\ Langs(imagesResp[r].data.logos.v) \in {<<"en", JS_NULL>>, <<JS_NULL, "en">>}

ExampleGroups(p) ==
  /\ Len(p.backdrops["en"]) = 1 /\ Len(p.backdrops["hi"]) = 0 /\ Len(p.backdrops["null"]) = 0
  /\ Len(p.posters["ta"]) = 1
  /\ Member(p.skipped, FivePostersEntry)
  /\ Len(p.logos) = 2
  /\ {p.logos[i].key : i \in 1..2} = {"en", "null"}
  /\ \A i \in 1..2 : Len(p.logos[i].urls) = 1
  /\ ~Member(p.skipped, LogosEntry)

\* C8 as stated: the example's payload has backdrops.en of length 1, hi and
\* null empty, skipped containing "Backdrops (en/hi/null)", posters.ta of
\* length 1, skipped listing the five empty poster languages, logos with
\* the keys "en" and "null" of length 1 each, no logos entry in skipped, and
\* the sections English backdrop, Tamil poster, logo en, logo no-language in
\* this order (the en logo being the first upstream).
C8_ExampleAsStated ==
  \A r \in Reqs :
    IsExample(r) =>
      /\ Len(res[r]) = 1 /\ res[r][1].status = 200
      /\ ExampleGroups(res[r][1].body)
      /\ Member(res[r][1].body.skipped, BackdropsEntry)
      /\ Langs(imagesResp[r].data.logos.v) = <<"en", JS_NULL>> =>
           SectionTitles(res[r][1].body.formatted) =
             << <<"English Landscape">>, <<"Tamil Posters">>, <<"Logo ", "EN">>, <<"No Language">> >>

\* C8 as amended: the same, but skipped does not contain "Backdrops
\* (en/hi/null)" (the en bucket is not empty) and is exactly the one posters
\* entry, and the two logo sections come in the upstream order of the logos.
C8_ExamplePayload ==
  \A r \in Reqs :
    IsExample(r) =>
      /\ Len(res[r]) = 1 /\ res[r][1].status = 200
      /\ ExampleGroups(res[r][1].body)
      /\ ~Member(res[r][1].body.skipped, BackdropsEntry)
      /\ res[r][1].body.skipped = <<FivePostersEntry>>
      /\ SectionTitles(res[r][1].body.formatted) =
           IF Langs(imagesResp[r].data.logos.v) = <<"en", JS_NULL>>
           THEN << <<"English Landscape">>, <<"Tamil Posters">>, <<"Logo ", "EN">>, <<"No Language">> >>
           ELSE << <<"English Landscape">>, <<"Tamil Posters">>, <<"No Language">>, <<"Logo ", "EN">> >>

\* The example answered, its en logo first upstream.
C8_Witness ==
  \E r \in Reqs :
    /\ IsExample(r)
    /\ Langs(imagesResp[r].data.logos.v) = <<"en", JS_NULL>>
    /\ Len(res[r]) = 1

\* What C5, C6 and C7 speak of: the payload of an answered request and the
\* catalog it was made from.
Answered200(r) == Len(res[r]) = 1 /\ res[r][1].status = 200
PayloadOf(r) == res[r][1].body
CatalogOf(r) == imagesResp[r].data
BackdropKeys == {"en", "hi", "null"}
PosterKeys == {"en", "hi", "ja", "ko", "ta", "te"}
PosterOrder == <<"en", "hi", "ta", "te", "ja", "ko">>
IsPostersEntry(e) == Len(e) > 0 /\ e[1] = "Posters ("
\* The posters entry that lists the languages of `langs'.
ListsLanguages(e, langs) ==
  /\ Len(e) = 2 * Len(langs) + 1
  /\ e[1] = "Posters (" /\ e[Len(e)] = ")"
  /\ \A i \in 1..Len(langs) : e[2 * i] = langs[i]
  /\ \A i \in 1..(Len(langs) - 1) : e[2 * i + 1] = ", "

\* C5 as stated: in a success payload the label of a category is in skipped
\* if and only if all the buckets of the category are empty.
C5_SkippedIffAllEmpty ==
  \A r \in Reqs :
    Answered200(r) =>
      /\ Member(PayloadOf(r).skipped, BackdropsEntry)
           <=> \A k \in BackdropKeys : PayloadOf(r).backdrops[k] = <<>>
      /\ (\E i \in 1..Len(PayloadOf(r).skipped) : IsPostersEntry(PayloadOf(r).skipped[i]))
           <=> \A k \in PosterKeys : PayloadOf(r).posters[k] = <<>>
      /\ Member(PayloadOf(r).skipped, LogosEntry) <=> Len(PayloadOf(r).logos) = 0

\* C5 as amended: the backdrops entry is in skipped iff en, hi and null are
\* all empty, the logos entry iff logos has no key, and a posters entry iff
\* at least one of the six poster buckets is empty; there is one posters
\* entry at most and it lists the empty poster buckets, in the fixed order.
C5_SkippedEntries ==
  \A r \in Reqs :
    Answered200(r) =>
      /\ Member(PayloadOf(r).skipped, BackdropsEntry)
           <=> \A k \in BackdropKeys : PayloadOf(r).backdrops[k] = <<>>
      /\ (\E i \in 1..Len(PayloadOf(r).skipped) : IsPostersEntry(PayloadOf(r).skipped[i]))
           <=> \E k \in PosterKeys : PayloadOf(r).posters[k] = <<>>
      /\ \A i, j \in 1..Len(PayloadOf(r).skipped) :
           IsPostersEntry(PayloadOf(r).skipped[i]) =>
             /\ IsPostersEntry(PayloadOf(r).skipped[j]) => i = j
             /\ ListsLanguages(PayloadOf(r).skipped[i],
                               SelectSeq(PosterOrder, LAMBDA k : PayloadOf(r).posters[k] = <<>>))
      /\ Member(PayloadOf(r).skipped, LogosEntry) <=> Len(PayloadOf(r).logos) = 0

\* A payload whose six poster buckets are all filled and whose backdrops
\* and logos are empty: the two entries without a posters entry.
C5_Witness ==
  \E r \in Reqs :
    /\ Answered200(r)
    /\ \A k \in PosterKeys : PayloadOf(r).posters[k] # <<>>
    /\ PayloadOf(r).skipped = <<BackdropsEntry, LogosEntry>>

\* The url the claims expect of an asset: the prefix, then the path.
ExpectedUrl(a) == <<"https://image.tmdb.org/t/p/original">> \o a.file_path
UrlsOf(assets) == [i \in 1..Len(assets) |-> ExpectedUrl(assets[i])]
\* The language key the claims give an asset: no-language ("null") when
\* it carries no code, be the field null or absent; else its raw code.
ClaimedKey(a) ==
  IF a.iso_639_1 \in {JS_NULL, JS_UNDEFINED} THEN "null" ELSE a.iso_639_1
WithClaimedKey(assets, k) == SelectSeq(assets, LAMBDA a : ClaimedKey(a) = k)

\* C6: the backdrops grouping has the keys en, hi, null and the posters
\* grouping the six poster languages, no other; each bucket holds, in
\* upstream order, the url (prefix + path) of exactly the assets of its
\* language key, a backdrop without a language code (null or absent)
\* having the key null; the other assets are dropped.
C6_FixedBucketsHoldTheirAssets ==
  \A r \in Reqs :
    Answered200(r) =>
      /\ DOMAIN PayloadOf(r).backdrops = BackdropKeys
      /\ DOMAIN PayloadOf(r).posters = PosterKeys
      /\ \A k \in BackdropKeys :
           PayloadOf(r).backdrops[k] = UrlsOf(WithClaimedKey(OrEmpty(CatalogOf(r).backdrops).v, k))
      /\ \A k \in PosterKeys :
           PayloadOf(r).posters[k] =
             UrlsOf(SelectSeq(OrEmpty(CatalogOf(r).posters).v, LAMBDA a : a.iso_639_1 = k))

\* C6 restricted to catalogs whose backdrops all carry the iso_639_1 field
\* (a string or null): there the code does what the claim says.
C6_WhenFieldPresent ==
  \A r \in Reqs :
    (/\ Answered200(r)
     /\ \A i \in 1..Len(OrEmpty(CatalogOf(r).backdrops).v) :
          OrEmpty(CatalogOf(r).backdrops).v[i].iso_639_1 # JS_UNDEFINED)
    => /\ DOMAIN PayloadOf(r).backdrops = BackdropKeys
       /\ DOMAIN PayloadOf(r).posters = PosterKeys
       /\ \A k \in BackdropKeys :
            PayloadOf(r).backdrops[k] = UrlsOf(WithClaimedKey(OrEmpty(CatalogOf(r).backdrops).v, k))
       /\ \A k \in PosterKeys :
            PayloadOf(r).posters[k] =
              UrlsOf(SelectSeq(OrEmpty(CatalogOf(r).posters).v, LAMBDA a : a.iso_639_1 = k))

\* C7: the keys of the logos grouping are the distinct language keys of
\* the upstream logos (the language code, or no-language when the logo has
\* none), no key twice, and each bucket holds, in upstream order, the url
\* of every logo of its key: no logo is left out.
C7_LogoBucketsAreTheLanguages ==
  \A r \in Reqs :
    Answered200(r) =>
      LET logos == OrEmpty(CatalogOf(r).logos).v
          grouped == PayloadOf(r).logos
      IN /\ {grouped[i].key : i \in 1..Len(grouped)} = {ClaimedKey(logos[i]) : i \in 1..Len(logos)}
         /\ \A i, j \in 1..Len(grouped) : grouped[i].key = grouped[j].key => i = j
         /\ \A i \in 1..Len(grouped) :
              grouped[i].urls = UrlsOf(WithClaimedKey(logos, grouped[i].key))

\* C7 restricted to catalogs whose logos all carry the iso_639_1 field (a
\* string or null): there the code does what the claim says.
C7_WhenFieldPresent ==
  \A r \in Reqs :
    (/\ Answered200(r)
     /\ \A i \in 1..Len(OrEmpty(CatalogOf(r).logos).v) :
          OrEmpty(CatalogOf(r).logos).v[i].iso_639_1 # JS_UNDEFINED)
    => LET logos == OrEmpty(CatalogOf(r).logos).v
           grouped == PayloadOf(r).logos
       IN /\ {grouped[i].key : i \in 1..Len(grouped)} = {ClaimedKey(logos[i]) : i \in 1..Len(logos)}
          /\ \A i, j \in 1..Len(grouped) : grouped[i].key = grouped[j].key => i = j
          /\ \A i \in 1..Len(grouped) :
               grouped[i].urls = UrlsOf(WithClaimedKey(logos, grouped[i].key))

\* C10: in every interleaving, a request issues at most one search call
\* and then at most one images call, in this order; its images call is out
\* only once its own search has resolved with a movie or tv, and names the
\* media type and id of the first movie or tv of its own search response;
\* a request answered 200 has made one call of each.
C10_OwnSearchThenOwnImages ==
  \A r \in Reqs :
    /\ AtMostOneCallEach(r)
    /\ Len(calls[r]) >= 1 => calls[r][1].params.query # <<>>
    /\ Len(calls[r]) = 2 =>
         /\ GotResults(r)
         /\ \E k \in 1..Len(SearchResults(r)) :
              /\ IsFirstMovieOrTv(SearchResults(r), k)
              /\ calls[r][2].url = ImagesUrl(SearchResults(r)[k])
    /\ (\E i \in 1..Len(res[r]) : res[r][i].status = 200) =>
         /\ Len(calls[r]) = 2
         /\ imagesResp[r].kind = "resolved"
    /\ pc[r] = "search" => Len(calls[r]) = 1 /\ multi[r].kind = "pending"
    /\ pc[r] = "images" => Len(calls[r]) = 2 /\ imagesResp[r].kind = "pending"

\* Two requests in flight at once that selected different entities: one
\* still awaits its images call, the other is answered 200.
C10_Witness ==
  \E r1, r2 \in Reqs :
    /\ r1 # r2
    /\ pc[r1] = "images"
    /\ Answered200(r2)
    /\ calls[r1][2].url # calls[r2][2].url
    /\ calls[r1][1].params.query # calls[r2][1].params.query

====
